---- MODULE Spec2Model ----
(***************************************************************************)
(* DocumentListMergeCommand (documentlist/documentlistmergecommand.js).    *)
(*                                                                         *)
(* The document is the sequence of blocks of one root.  A block is a       *)
(* record                                                                  *)
(*   uid    - the identity of the element object                           *)
(*   obj    - schema.isObject( block )                                     *)
(*   text   - its children (block.isEmpty is text = << >>)                 *)
(*   indent - the listIndent attribute, NoIndent when absent               *)
(*   itemId - the listItemId attribute, NoId when absent                   *)
(* An element reference is an index into the document, Null for the        *)
(* null reference of a missing sibling.                                    *)
(***************************************************************************)
EXTENDS Integers, Sequences, FiniteSets, TLC

MaxBlocks == 3
MaxIndent == 2

Null == 0
NoId == 0
NoIndent == 0 - 1
NaN == 0 - 99

VARIABLES doc, selection, direction, isEnabled, pc, changeDepth, fired, payload, probe, run

vars == << doc, selection, direction, isEnabled, pc, changeDepth, fired, payload, probe, run >>

Directions == { "backward", "forward" }

----------------------------------------------------------------------------
(* Helpers on sequences.                                                   *)

Range(s) == { s[i] : i \in 1..Len(s) }

RECURSIVE SeqOfSorted(_)
SeqOfSorted(S) ==
    IF S = {} THEN << >>
    ELSE LET m == CHOOSE x \in S : \A y \in S : x <= y
         IN << m >> \o SeqOfSorted(S \ { m })

IndexOfUid(D, u) ==
    IF \E i \in 1..Len(D) : D[i].uid = u
    THEN CHOOSE i \in 1..Len(D) : D[i].uid = u
    ELSE Null

UidSeq(D, idxs) == [ i \in 1..Len(idxs) |-> D[idxs[i]].uid ]

----------------------------------------------------------------------------
(* The host's model: element queries.                                      *)

previousSibling(D, k) == IF k > 1 THEN k - 1 ELSE Null

nextSibling(D, k) == IF k # Null /\ k < Len(D) THEN k + 1 ELSE Null

isListItemBlock(D, k) == k # Null /\ D[k].itemId # NoId

\* JavaScript's < on attribute values: false as soon as one side is undefined or NaN.
JsLess(a, b) == a >= 0 /\ b >= 0 /\ a < b

----------------------------------------------------------------------------
(* ListWalker: iterates the sibling list blocks of a start element.  o is  *)
(* the options record; the result is the sequence of indices yielded.      *)

\* One turn of the iterator's loop on node k: whether the loop ends, and the
\* reference indent, the pending nested blocks and the blocks yielded so far.
WalkStep(D, k, ref, startId, nested, out, o) ==
    LET indent == D[k].indent
        yield == [ stop |-> FALSE, ref |-> ref, nested |-> << >>, out |-> out \o nested \o << k >> ]
        skip == [ stop |-> FALSE, ref |-> ref, nested |-> nested, out |-> out ]
        break == [ stop |-> TRUE, ref |-> ref, nested |-> nested, out |-> out ]
    IN IF JsLess(indent, ref)
       THEN IF ~o.lowerIndent THEN break ELSE [ yield EXCEPT !.ref = indent ]
       ELSE IF JsLess(ref, indent)
       THEN IF ~o.higherIndent THEN skip
            ELSE IF ~o.forward THEN [ skip EXCEPT !.nested = Append(nested, k) ]
            ELSE yield
       ELSE IF ~o.sameIndent
       THEN IF o.higherIndent THEN [ break EXCEPT !.out = out \o nested ] ELSE skip
       ELSE IF o.sameItemId /\ D[k].itemId # startId THEN break
       ELSE yield

RECURSIVE Walk(_, _, _, _, _, _, _)
Walk(D, k, ref, startId, nested, out, o) ==
    IF k < 1 \/ k > Len(D) \/ ~isListItemBlock(D, k) THEN out
    ELSE LET s == WalkStep(D, k, ref, startId, nested, out, o)
         IN IF s.stop THEN s.out
            ELSE Walk(D, IF o.forward THEN k + 1 ELSE k - 1, s.ref, startId, s.nested, s.out, o)

ListWalker(D, start, o) ==
    LET startNode == IF o.includeSelf THEN start
                     ELSE IF o.forward THEN start + 1 ELSE start - 1
    IN Walk(D, startNode, D[start].indent, D[start].itemId, << >>, << >>, o)

WalkerOptions ==
    [ forward |-> FALSE, includeSelf |-> FALSE, sameItemId |-> FALSE,
      sameIndent |-> FALSE, lowerIndent |-> FALSE, higherIndent |-> FALSE ]

ListWalkerFirst(D, start, o) ==
    LET w == ListWalker(D, start, o)
    IN IF Len(w) = 0 THEN Null ELSE w[1]

----------------------------------------------------------------------------
(* documentlist/utils/model: the helpers the command imports.              *)

isSingleListItem(D, blocks) ==
    /\ Len(blocks) > 0
    /\ D[blocks[1]].itemId # NoId
    /\ \A i \in 1..Len(blocks) : D[blocks[i]].itemId = D[blocks[1]].itemId

isFirstBlockOfListItem(D, k) ==
    ListWalkerFirst(D, k, [ WalkerOptions EXCEPT !.sameIndent = TRUE, !.sameItemId = TRUE ]) = Null

getNestedListBlocks(D, k) ==
    ListWalker(D, k, [ WalkerOptions EXCEPT !.forward = TRUE, !.higherIndent = TRUE ])

getAllListItemBlocks(D, k) ==
    LET o == [ WalkerOptions EXCEPT !.sameIndent = TRUE, !.sameItemId = TRUE, !.higherIndent = TRUE ]
    IN Range(ListWalker(D, k, o))
         \cup Range(ListWalker(D, k, [ o EXCEPT !.forward = TRUE, !.includeSelf = TRUE ]))

expandListBlocksToCompleteItems(D, blocks) ==
    SeqOfSorted(UNION { getAllListItemBlocks(D, blocks[i]) : i \in 1..Len(blocks) })

\* undefined + n and n + NaN are NaN.
JsAdd(attr, by) == IF attr = NoIndent \/ attr = NaN \/ by = NaN THEN NaN ELSE attr + by

removeListAttributes(b) == [ b EXCEPT !.indent = NoIndent, !.itemId = NoId ]

reindent(b, indentBy) ==
    IF JsAdd(b.indent, indentBy) # NaN /\ JsAdd(b.indent, indentBy) < 0
    THEN removeListAttributes(b)
    ELSE [ b EXCEPT !.indent = JsAdd(b.indent, indentBy) ]

indentAll(D, allBlocks, indentBy) ==
    [ doc |-> [ i \in 1..Len(D) |-> IF i \in Range(allBlocks) THEN reindent(D[i], indentBy) ELSE D[i] ],
      changed |-> allBlocks ]

indentBlocks(D, blocks, indentBy, expand) ==
    indentAll(D, IF expand THEN expandListBlocksToCompleteItems(D, blocks) ELSE blocks, indentBy)

\* Copies the list attributes of parentBlock, when it has any, onto listBlock.
mergeListItemBefore(D, listBlock, parentBlock) ==
    [ doc |-> IF D[parentBlock].itemId = NoId /\ D[parentBlock].indent = NoIndent
              THEN D
              ELSE [ D EXCEPT ![listBlock].indent = D[parentBlock].indent,
                              ![listBlock].itemId = D[parentBlock].itemId ],
      changed |-> << listBlock >> ]

\* Blocks still in the document, in document order.
sortBlocks(D, uids) ==
    LET idxs == { IndexOfUid(D, u) : u \in uids } \ { Null }
    IN UidSeq(D, SeqOfSorted(idxs))

----------------------------------------------------------------------------
(* model.deleteContent( sel, { doNotResetEntireContent } ) for a range     *)
(* r = [fb, fo] .. [lb, lo] whose ends lie in non-object blocks or, for    *)
(* the range the command creates, at the edge of a sibling.  The result is *)
(* the new document and pos, the block that holds the collapsed selection. *)

FreshUid(D) == CHOOSE u \in 1..(Len(D) + 1) : \A i \in 1..Len(D) : D[i].uid # u

emptyParagraph(u) == [ uid |-> u, obj |-> FALSE, text |-> << >>, indent |-> NoIndent, itemId |-> NoId ]

Drop(s, n) == SubSeq(s, n + 1, Len(s))

\* the range holds text or an object
hasContent(D, r) ==
    \/ r.fb = r.lb /\ r.fo < r.lo
    \/ r.fb < r.lb /\ ( \/ r.fo < Len(D[r.fb].text)
                        \/ r.lo > 0
                        \/ \E k \in (r.fb + 1)..(r.lb - 1) : D[k].obj \/ D[k].text # << >> )

\* A range that ends at the very start of a block does not take that block.
selectedBlocks(D, r) ==
    IF r.fb < r.lb /\ r.lo = 0 /\ hasContent(D, r) /\ ~D[r.lb - 1].obj /\ ~D[r.lb].obj
    THEN [ r EXCEPT !.lb = r.lb - 1, !.lo = Len(D[r.lb - 1].text) ]
    ELSE r

\* The blocks left and right of the deleted range are merged, into the right one
\* when the left one is empty, unless one of them is an object.
mergeBranches(prefix, left, right, suffix) ==
    IF left.obj \/ right.obj THEN prefix \o << left, right >> \o suffix
    ELSE IF left.text = << >> /\ right.text # << >> THEN prefix \o << right >> \o suffix
    ELSE prefix \o << [ left EXCEPT !.text = left.text \o right.text ] >> \o suffix

deleteRange(D, r) ==
    IF r.fb = r.lb
    THEN [ D EXCEPT ![r.fb].text = SubSeq(D[r.fb].text, 1, r.fo) \o Drop(D[r.fb].text, r.lo) ]
    ELSE mergeBranches(SubSeq(D, 1, r.fb - 1),
                       [ D[r.fb] EXCEPT !.text = SubSeq(D[r.fb].text, 1, r.fo) ],
                       [ D[r.lb] EXCEPT !.text = Drop(D[r.lb].text, r.lo) ],
                       SubSeq(D, r.lb + 1, Len(D)))

deleteContent(D, r, doNotResetEntireContent) ==
    IF ~doNotResetEntireContent /\ r.fb = 1 /\ r.fo = 0 /\ r.lb = Len(D) /\ r.lo = Len(D[Len(D)].text)
    THEN [ doc |-> << emptyParagraph(FreshUid(D)) >>, pos |-> 1 ]
    ELSE [ doc |-> deleteRange(D, selectedBlocks(D, r)), pos |-> r.fb ]

----------------------------------------------------------------------------
(* DocumentListMergeCommand.  A selection is [isCollapsed, fb, fo, lb, lo]:*)
(* its first position is offset fo of block fb, its last position offset   *)
(* lo of block lb.  A call that can throw returns [threw, value].          *)

Returned(v) == [ threw |-> FALSE, value |-> v ]

Threw == [ threw |-> TRUE, value |-> FALSE ]

\* A variant that tests the direction only and goes on to the sibling checks for a range.
shouldMerge_directionOnly(D, sel, dir) ==
    IF dir = "forward" THEN Returned(TRUE)
    ELSE IF previousSibling(D, sel.fb) = Null THEN Threw
    ELSE IF D[previousSibling(D, sel.fb)].obj THEN Returned(FALSE)
    ELSE IF D[previousSibling(D, sel.fb)].text = << >> THEN Returned(TRUE)
    ELSE Returned(isSingleListItem(D, << sel.fb, previousSibling(D, sel.fb) >>))

\* A variant that always takes the previous sibling for a backward merge.
getBoundaryElements_noWalker(D, sel, dir, shouldMergeOnBlocksContentLevel) ==
    IF sel.isCollapsed
    THEN IF dir = "backward"
         THEN [ firstElement |-> previousSibling(D, sel.fb), lastElement |-> sel.fb ]
         ELSE [ firstElement |-> sel.fb, lastElement |-> nextSibling(D, sel.fb) ]
    ELSE [ firstElement |-> sel.fb, lastElement |-> sel.lb ]

_shouldMergeOnBlocksContentLevel(D, sel, dir) ==
    IF ~sel.isCollapsed \/ dir = "forward" THEN Returned(TRUE)
    ELSE LET positionParent == sel.fb
             prev == previousSibling(D, positionParent)
         IN \* schema.isObject( null ) and null.isEmpty both raise a TypeError
            IF prev = Null THEN Threw
            ELSE IF D[prev].obj THEN Returned(FALSE)
            ELSE IF D[prev].text = << >> THEN Returned(TRUE)
            ELSE Returned(isSingleListItem(D, << positionParent, prev >>))

_getBoundaryElements(D, sel, dir, shouldMergeOnBlocksContentLevel) ==
    IF sel.isCollapsed
    THEN LET positionParent == sel.fb
             isFirstBlock == isFirstBlockOfListItem(D, positionParent)
         IN IF dir = "backward"
            THEN [ firstElement |->
                       IF isFirstBlock /\ ~shouldMergeOnBlocksContentLevel
                       THEN ListWalkerFirst(D, positionParent,
                                [ WalkerOptions EXCEPT !.sameIndent = TRUE, !.lowerIndent = TRUE ])
                       ELSE previousSibling(D, positionParent),
                   lastElement |-> positionParent ]
            ELSE [ firstElement |-> positionParent,
                   lastElement |-> nextSibling(D, positionParent) ]
    ELSE [ firstElement |-> sel.fb, lastElement |-> sel.lb ]

_checkEnabled(D, sel, dir) ==
    LET should == _shouldMergeOnBlocksContentLevel(D, sel, dir)
        b == _getBoundaryElements(D, sel, dir, should.value)
    IN IF should.threw THEN Threw
       ELSE IF should.value THEN Returned(isListItemBlock(D, b.lastElement))
       ELSE Returned(isListItemBlock(D, b.firstElement))

\* firstElement.getAttribute( 'listIndent' ) || 0
firstIndentOf(D, f) == IF D[f].indent = NoIndent \/ D[f].indent = NaN THEN 0 ELSE D[f].indent

\* firstIndent - lastIndent, NaN when lastIndent is undefined
indentDelta(firstIndent, lastIndent) ==
    IF lastIndent = NoIndent \/ lastIndent = NaN THEN NaN ELSE firstIndent - lastIndent

uidsOfChanged(D, r) == [ doc |-> r.doc, changed |-> UidSeq(D, r.changed) ]

\* A variant that never expands the re-indent to the complete list items.
reconcileIndent_noExpand(D, f, l) ==
    IF firstIndentOf(D, f) # D[l].indent
    THEN uidsOfChanged(D, indentBlocks(D, << l >> \o getNestedListBlocks(D, l),
                                       indentDelta(firstIndentOf(D, f), D[l].indent), FALSE))
    ELSE [ doc |-> D, changed |-> << >> ]

\* A variant that does not compare the list item identifiers.
shouldAbsorb_anyItem(D, next, lastUid, lastElementId) ==
    next # Null /\ D[next].uid # lastUid

\* execute(), the indent step: the document and the blocks pushed to changedBlocks.
reconcileIndent(D, f, l) ==
    LET firstIndent == firstIndentOf(D, f)
        lastIndent == D[l].indent
    IN IF firstIndent # lastIndent
       THEN uidsOfChanged(D, indentBlocks(D, << l >> \o getNestedListBlocks(D, l),
                                          indentDelta(firstIndent, lastIndent),
                                          JsLess(firstIndent, lastIndent)))
       ELSE [ doc |-> D, changed |-> << >> ]

\* nextSibling && nextSibling !== lastElement && nextSibling.getAttribute( 'listItemId' ) == lastElementId
shouldAbsorb(D, next, lastUid, lastElementId) ==
    next # Null /\ D[next].uid # lastUid /\ D[next].itemId = lastElementId

\* execute(), the content-level branch after deleteContent(): del.pos is
\* lastElementAfterDelete.
mergeAfterDelete(del, next, absorb) ==
    [ deleted |-> del.doc,
      mergePoint |-> del.doc[del.pos].uid,
      absorbed |-> IF absorb THEN del.doc[next].uid ELSE Null,
      doc |-> IF absorb THEN mergeListItemBefore(del.doc, next, del.pos).doc ELSE del.doc,
      changed |-> << del.doc[del.pos].uid >>
                    \o (IF absorb THEN UidSeq(del.doc, mergeListItemBefore(del.doc, next, del.pos).changed)
                        ELSE << >>),
      selection |-> [ isCollapsed |-> TRUE, fb |-> del.pos, fo |-> 0, lb |-> del.pos, lo |-> 0 ] ]

absorbNext(del, lastUid, lastElementId) ==
    mergeAfterDelete(del, nextSibling(del.doc, del.pos),
                     shouldAbsorb(del.doc, nextSibling(del.doc, del.pos), lastUid, lastElementId))

\* execute(), the content-level branch.
mergeContent(D, sel, f, l, lastUid, lastElementId) ==
    absorbNext(deleteContent(D,
                             IF sel.isCollapsed
                             THEN [ fb |-> f, fo |-> Len(D[f].text), lb |-> l, lo |-> 0 ]
                             ELSE [ fb |-> sel.fb, fo |-> sel.fo, lb |-> sel.lb, lo |-> sel.lo ],
                             sel.isCollapsed),
               lastUid, lastElementId)

\* execute(), the structural branch.
mergeStructural(D, sel, f, l) ==
    [ deleted |-> D, mergePoint |-> Null, absorbed |-> D[l].uid,
      doc |-> mergeListItemBefore(D, l, f).doc,
      changed |-> UidSeq(D, mergeListItemBefore(D, l, f).changed), selection |-> sel ]

\* A variant that fires the array as it was pushed.
fireAfterExecute_raw(D, changedBlocks) == changedBlocks

\* this.fire( 'afterExecute', sortBlocks( new Set( changedBlocks ) ) )
_fireAfterExecute(D, changedBlocks) == sortBlocks(D, Range(changedBlocks))

\* A variant that fires the event before the merge step.
executeFire_beforeMerge(D, sel, should, b, ind, mrg) ==
    [ pre |-> D, preSelection |-> sel,
      should |-> should, firstElement |-> b.firstElement, lastElement |-> b.lastElement,
      indented |-> ind.doc, indentChanged |-> ind.changed,
      deleted |-> mrg.deleted, mergePoint |-> mrg.mergePoint, absorbed |-> mrg.absorbed,
      doc |-> mrg.doc, selection |-> mrg.selection,
      changedBlocks |-> ind.changed \o mrg.changed,
      seen |-> ind.doc,
      payload |-> _fireAfterExecute(ind.doc, ind.changed) ]

\* The end of the callback: the event is fired on the merged document.
executeFire(D, sel, should, b, ind, mrg) ==
    [ pre |-> D, preSelection |-> sel,
      should |-> should, firstElement |-> b.firstElement, lastElement |-> b.lastElement,
      indented |-> ind.doc, indentChanged |-> ind.changed,
      deleted |-> mrg.deleted, mergePoint |-> mrg.mergePoint, absorbed |-> mrg.absorbed,
      doc |-> mrg.doc, selection |-> mrg.selection,
      changedBlocks |-> ind.changed \o mrg.changed,
      seen |-> mrg.doc,
      payload |-> _fireAfterExecute(mrg.doc, ind.changed \o mrg.changed) ]

executeMerge(D, sel, should, b, ind) ==
    executeFire(D, sel, should, b, ind,
                IF should
                THEN mergeContent(ind.doc, sel, b.firstElement, b.lastElement,
                                  D[b.lastElement].uid, D[b.lastElement].itemId)
                ELSE mergeStructural(ind.doc, sel, b.firstElement, b.lastElement))

executeIndent(D, sel, should, b) ==
    executeMerge(D, sel, should, b, reconcileIndent(D, b.firstElement, b.lastElement))

\* The callback execute() hands to model.change(), on the document D.
execute(D, sel, dir) ==
    executeIndent(D, sel, _shouldMergeOnBlocksContentLevel(D, sel, dir).value,
                  _getBoundaryElements(D, sel, dir, _shouldMergeOnBlocksContentLevel(D, sel, dir).value))

----------------------------------------------------------------------------
(* The documents and selections of the host.                               *)

text(u, empty) == IF empty THEN << >> ELSE << u >>

\* The nearest block before the end of d at indent i with no shallower block between.
RECURSIVE PrevSame(_, _, _)
PrevSame(d, k, i) ==
    IF k < 1 \/ d[k].itemId = NoId \/ d[k].indent < i THEN Null
    ELSE IF d[k].indent = i THEN k
    ELSE PrevSame(d, k - 1, i)

\* The blocks that may follow d in a document whose list attributes are well formed.
ValidNext(d) ==
    LET u == Len(d) + 1
        top == IF Len(d) > 0 /\ d[Len(d)].itemId # NoId THEN d[Len(d)].indent + 1 ELSE 0
        plain == { [ uid |-> u, obj |-> o, text |-> text(u, e), indent |-> NoIndent, itemId |-> NoId ]
                     : o \in BOOLEAN, e \in BOOLEAN }
        items == UNION { LET p == PrevSame(d, Len(d), i)
                         IN { [ uid |-> u, obj |-> o, text |-> text(u, e), indent |-> i, itemId |-> id ]
                                : o \in BOOLEAN, e \in BOOLEAN,
                                  id \in { u } \cup (IF p = Null THEN {} ELSE { d[p].itemId }) }
                       : i \in 0..(IF top < MaxIndent THEN top ELSE MaxIndent) }
    IN plain \cup items

RECURSIVE DocsOfLen(_)
DocsOfLen(n) ==
    IF n = 0 THEN { << >> }
    ELSE UNION { { Append(d, b) : b \in ValidNext(d) } : d \in DocsOfLen(n - 1) }

Docs == UNION { DocsOfLen(n) : n \in 1..MaxBlocks }

Collapsed(k) == [ isCollapsed |-> TRUE, fb |-> k, fo |-> 0, lb |-> k, lo |-> 0 ]

Carets(D) == { Collapsed(k) : k \in { j \in 1..Len(D) : ~D[j].obj } }

Selections(D) ==
    Carets(D)
      \cup { s \in [ isCollapsed : { FALSE }, fb : 1..Len(D), fo : 0..MaxBlocks,
                     lb : 1..Len(D), lo : 0..MaxBlocks ] :
               /\ ~D[s.fb].obj /\ ~D[s.lb].obj
               /\ s.fo <= Len(D[s.fb].text) /\ s.lo <= Len(D[s.lb].text)
               /\ (s.fb < s.lb \/ (s.fb = s.lb /\ s.fo < s.lo)) }

----------------------------------------------------------------------------
(* The state machine.                                                      *)

NoProbe == [ threw |-> FALSE, should |-> FALSE, firstElement |-> Null, lastElement |-> Null ]

Init ==
    /\ doc \in Docs
    /\ selection \in Selections(doc)
    /\ direction \in Directions
    /\ isEnabled = FALSE
    /\ pc = "stale"
    /\ changeDepth = 0
    /\ fired = FALSE
    /\ payload = << >>
    /\ probe = NoProbe
    /\ run = [ executed |-> FALSE ]

\* refresh() on the selection sel: this.isEnabled = this._checkEnabled(), or the
\* TypeError it raises.  probe keeps the locals of _checkEnabled().
refresh(sel) ==
    IF _checkEnabled(doc, sel, direction).threw
    THEN /\ pc' = "error"
         /\ probe' = [ NoProbe EXCEPT !.threw = TRUE ]
         /\ UNCHANGED isEnabled
    ELSE /\ pc' = "ready"
         /\ isEnabled' = _checkEnabled(doc, sel, direction).value
         /\ probe' = [ threw |-> FALSE,
                       should |-> _shouldMergeOnBlocksContentLevel(doc, sel, direction).value ]
                     @@ _getBoundaryElements(doc, sel, direction,
                                             _shouldMergeOnBlocksContentLevel(doc, sel, direction).value)

\* The host moves the caret: the document's change event refreshes the command.
SetSelection ==
    /\ pc \in { "ready", "error" }
    /\ \E s \in Carets(doc) :
         /\ s # selection
         /\ selection' = s
         /\ refresh(s)
    /\ UNCHANGED << doc, direction, changeDepth, fired, payload, run >>

\* A refresh cycle of the host on an unchanged document and selection.
Refresh ==
    /\ pc \in { "stale", "ready" }
    /\ refresh(selection)
    /\ UNCHANGED << doc, selection, direction, changeDepth, fired, payload, run >>

\* execute(): model.change( writer => { ...; this._fireAfterExecute( changedBlocks ) } )
Execute ==
    /\ pc = "ready"
    /\ isEnabled
    /\ run' = execute(doc, selection, direction) @@ [ executed |-> TRUE, firedAtDepth |-> changeDepth + 1 ]
    /\ doc' = run'.doc
    /\ selection' = run'.selection
    /\ payload' = run'.payload
    /\ changeDepth' = changeDepth + 1
    /\ fired' = TRUE
    /\ pc' = "inChange"
    /\ UNCHANGED << direction, isEnabled, probe >>

\* model.change() returns: the change block is closed.
ChangeEnd ==
    /\ pc = "inChange"
    /\ changeDepth' = changeDepth - 1
    /\ pc' = "changed"
    /\ UNCHANGED << doc, selection, direction, isEnabled, fired, payload, probe, run >>

Next == SetSelection \/ Refresh \/ Execute \/ ChangeEnd

Spec == Init /\ [][Next]_vars

----------------------------------------------------------------------------
(* Vocabulary of the properties, stated on the document itself rather than *)
(* through the walker.                                                     *)

Refreshed == pc = "ready"

Executed == pc \in { "inChange", "changed" }

HasUid(D, u) == \E i \in 1..Len(D) : D[i].uid = u

Uids(D) == { D[i].uid : i \in 1..Len(D) }

IsListItem(b) == b.itemId # NoId

\* The blocks nested in block k: the run of deeper list blocks that follows it.
NestedOf(D, k) ==
    { j \in (k + 1)..Len(D) : \A m \in (k + 1)..j : IsListItem(D[m]) /\ D[m].indent > D[k].indent }

\* The blocks of the list item of block k together with everything nested in them.
ItemScope(D, k) ==
    UNION { { j } \cup NestedOf(D, j) : j \in { i \in 1..Len(D) : D[i].itemId = D[k].itemId } }

\* Block k opens its list item (a block that is no list item opens nothing before it).
OpensItem(D, k) == ~IsListItem(D[k]) \/ ~\E j \in 1..(k - 1) : D[j].itemId = D[k].itemId

\* The nearest block before k, within the same run of list blocks, that is not deeper than k.
NearestNotDeeper(D, k) ==
    LET cand == { j \in 1..(k - 1) :
                    /\ \A m \in j..(k - 1) : IsListItem(D[m])
                    /\ ~(IsListItem(D[k]) /\ D[j].indent > D[k].indent) }
    IN IF cand = {} THEN Null ELSE CHOOSE j \in cand : \A i \in cand : i <= j

TextLength(D) == LET n[i \in 0..Len(D)] == IF i = 0 THEN 0 ELSE n[i - 1] + Len(D[i].text) IN n[Len(D)]

SelectedLength(D, sel) ==
    IF sel.fb = sel.lb THEN sel.lo - sel.fo
    ELSE LET between[i \in sel.fb..(sel.lb - 1)] ==
                 IF i = sel.fb THEN 0 ELSE between[i - 1] + Len(D[i].text)
         IN (Len(D[sel.fb].text) - sel.fo) + between[sel.lb - 1] + sel.lo

NoDuplicates(q) == \A i, j \in 1..Len(q) : q[i] = q[j] => i = j

InDocumentOrder(D, q) ==
    /\ \A i \in 1..Len(q) : HasUid(D, q[i])
    /\ \A i, j \in 1..Len(q) : i < j => IndexOfUid(D, q[i]) < IndexOfUid(D, q[j])

----------------------------------------------------------------------------
(* C1: after every refresh(), isEnabled is true only if both boundary      *)
(* blocks exist and the last boundary block is a list-item block, and it   *)
(* is false whenever the last boundary block is not a list-item block.     *)
C1_EnabledIffLastIsListItem ==
    Refreshed =>
        /\ isEnabled => /\ probe.firstElement # Null
                        /\ probe.lastElement # Null
                        /\ IsListItem(doc[probe.lastElement])
        /\ (probe.lastElement = Null \/ ~isListItemBlock(doc, probe.lastElement)) => ~isEnabled

(* C2: the content-level decision is a boolean for every selection and     *)
(* direction: true exactly when the selection is a range, or the direction *)
(* is forward, or the previous sibling is no object and is empty or of the *)
(* same list item; false in every remaining collapsed backward case.       *)
C2_Expected(D, sel, dir) ==
    \/ ~sel.isCollapsed
    \/ dir = "forward"
    \/ /\ sel.fb > 1
       /\ ~D[sel.fb - 1].obj
       /\ \/ D[sel.fb - 1].text = << >>
          \/ IsListItem(D[sel.fb]) /\ D[sel.fb - 1].itemId = D[sel.fb].itemId

C2_ContentLevelDecision ==
    pc \in { "ready", "error" } =>
        /\ ~probe.threw
        /\ probe.should = C2_Expected(doc, selection, direction)

\* The decision agrees with C2 on every input for which it returns.
C2_DecisionWhereItReturns ==
    Refreshed => probe.should = C2_Expected(doc, selection, direction)

(* C3: boundary resolution.  A range gives the blocks of its two ends in   *)
(* both directions; a collapsed forward selection its block and the next   *)
(* sibling; a collapsed backward selection its block as last and the       *)
(* previous sibling as first, except that a block opening its list item,   *)
(* when the merge is not content-level, gets the nearest preceding list    *)
(* block of the same or a lower indent.                                    *)
C3_BoundaryResolution ==
    Refreshed =>
        IF ~selection.isCollapsed
        THEN probe.firstElement = selection.fb /\ probe.lastElement = selection.lb
        ELSE IF direction = "forward"
        THEN /\ probe.firstElement = selection.fb
             /\ probe.lastElement = (IF selection.fb < Len(doc) THEN selection.fb + 1 ELSE Null)
        ELSE /\ probe.lastElement = selection.fb
             /\ probe.firstElement =
                    IF OpensItem(doc, selection.fb) /\ ~probe.should
                    THEN NearestNotDeeper(doc, selection.fb)
                    ELSE selection.fb - 1

C3_Witness ==
    /\ Refreshed /\ selection.isCollapsed /\ direction = "backward"
    /\ ~probe.should
    /\ probe.firstElement # Null
    /\ probe.firstElement < selection.fb - 1

(* C4: when the boundary blocks differ in indent, the last block and its   *)
(* nested blocks are re-indented by first indent - last indent before the  *)
(* merge, the last block ending at the first block's indent; exactly an    *)
(* outdent is expanded to the complete list items that follow; every       *)
(* re-indented block is pushed to the changed blocks; with equal indents   *)
(* nothing is re-indented.                                                 *)
C4_Reindented == { j \in 1..Len(run.pre) : run.indented[j] # run.pre[j] }

C4_IndentReconciliation ==
    (Executed /\ IsListItem(run.pre[run.lastElement])) =>
        LET D == run.pre
            l == run.lastElement
            fi == IF IsListItem(D[run.firstElement]) THEN D[run.firstElement].indent ELSE 0
            li == D[l].indent
            core == { l } \cup NestedOf(D, l)
        IN /\ Len(run.indented) = Len(D)
           /\ fi = li => run.indented = D /\ run.indentChanged = << >>
           /\ fi # li =>
                /\ run.indented[l].indent = fi
                /\ C4_Reindented = (IF fi < li THEN ItemScope(D, l) ELSE core)
                /\ core \subseteq C4_Reindented
                /\ \A j \in C4_Reindented :
                     /\ run.indented[j] = [ D[j] EXCEPT !.indent = D[j].indent + (fi - li) ]
                     /\ D[j].uid \in Range(run.changedBlocks)

\* An outdent that reaches past the last block and its nested blocks.
C4_Witness ==
    /\ Executed /\ IsListItem(run.pre[run.lastElement])
    /\ IsListItem(run.pre[run.firstElement])
    /\ run.pre[run.firstElement].indent < run.pre[run.lastElement].indent
    /\ C4_Reindented # { run.lastElement } \cup NestedOf(run.pre, run.lastElement)

\* The other cases: nested blocks moved with the last block, and an indent inward.
C4_WitnessNested ==
    /\ Executed /\ IsListItem(run.pre[run.lastElement])
    /\ NestedOf(run.pre, run.lastElement) # {}
    /\ NestedOf(run.pre, run.lastElement) \subseteq C4_Reindented

C4_WitnessInward ==
    /\ Executed /\ IsListItem(run.pre[run.lastElement])
    /\ IsListItem(run.pre[run.firstElement])
    /\ run.pre[run.firstElement].indent > run.pre[run.lastElement].indent
    /\ ItemScope(run.pre, run.lastElement) # C4_Reindented

(* C5: on the content-level branch the block right after the block holding *)
(* the merge point is merged into that block's list item if and only if it *)
(* exists, is not the original last block and carries the list item        *)
(* identifier the original last block had; otherwise nothing after the     *)
(* merge point is changed.                                                 *)
C5_AbsorbNext ==
    (Executed /\ run.should) =>
        LET D == run.deleted
            mp == IndexOfUid(D, run.mergePoint)
            nx == IF mp < Len(D) THEN mp + 1 ELSE Null
            wanted == /\ nx # Null
                      /\ D[nx].uid # run.pre[run.lastElement].uid
                      /\ D[nx].itemId = run.pre[run.lastElement].itemId
        IN /\ mp # Null
           /\ TextLength(D) = TextLength(run.pre)
                                - (IF run.preSelection.isCollapsed THEN 0
                                   ELSE SelectedLength(run.pre, run.preSelection))
           /\ run.preSelection.isCollapsed => Len(D) >= Len(run.pre) - 1
           /\ (run.absorbed # Null) <=> wanted
           /\ ~wanted => run.doc = D
           /\ wanted =>
                /\ run.absorbed = D[nx].uid
                /\ run.absorbed \in Range(run.changedBlocks)
                /\ \A i \in 1..Len(D) : i # nx => run.doc[i] = D[i]
                /\ IsListItem(D[mp]) =>
                     run.doc[nx] = [ D[nx] EXCEPT !.itemId = D[mp].itemId, !.indent = D[mp].indent ]

C5_Witness ==
    /\ Executed /\ run.should
    /\ run.absorbed # Null
    /\ run.doc # run.deleted

\* The two ways the test refuses: the next block is the original last block, or of another item.
C5_WitnessRefused ==
    /\ Executed /\ run.should /\ run.absorbed = Null
    /\ IndexOfUid(run.deleted, run.mergePoint) < Len(run.deleted)

(* C6: given a range whose ends lie in blocks of two different list items, *)
(* execute() merges the last block into the first structurally, deleting   *)
(* and splicing no text, and reports the absorbed block as changed.        *)
C6_Case ==
    /\ Executed /\ ~run.preSelection.isCollapsed
    /\ IsListItem(run.pre[run.preSelection.fb])
    /\ IsListItem(run.pre[run.preSelection.lb])
    /\ run.pre[run.preSelection.fb].itemId # run.pre[run.preSelection.lb].itemId

C6_StructuralMergeOfRange ==
    C6_Case =>
        /\ Len(run.doc) = Len(run.pre)
        /\ \A i \in 1..Len(run.pre) :
             run.doc[i].uid = run.pre[i].uid /\ run.doc[i].text = run.pre[i].text
        /\ run.doc[run.lastElement].itemId = run.pre[run.firstElement].itemId
        /\ run.pre[run.lastElement].uid \in Range(payload)

(* C6, amended: such a range is merged on content level: the selected      *)
(* content is deleted (its text and the blocks strictly inside it are      *)
(* gone), and the block that holds the merge point is reported as changed. *)
C6_ContentMergeOfRange ==
    C6_Case =>
        /\ run.should
        /\ run.firstElement = run.preSelection.fb /\ run.lastElement = run.preSelection.lb
        /\ TextLength(run.doc) = TextLength(run.pre) - SelectedLength(run.pre, run.preSelection)
        /\ \A i \in (run.preSelection.fb + 1)..(run.preSelection.lb - 1) :
             ~HasUid(run.doc, run.pre[i].uid)
        /\ run.mergePoint # Null
        /\ HasUid(run.doc, run.mergePoint)
        /\ run.mergePoint \in Range(payload)

C6_Witness ==
    /\ C6_Case
    /\ SelectedLength(run.pre, run.preSelection) > 0
    /\ Len(run.doc) < Len(run.pre)

(* C7: the payload of afterExecute holds each touched block at most once   *)
(* and in document order, however the steps pushed them.                   *)
C7_PayloadSortedUnique ==
    Executed =>
        /\ NoDuplicates(payload)
        /\ InDocumentOrder(doc, payload)
        /\ Range(payload) = Range(run.changedBlocks) \cap Uids(doc)

C7_Witness ==
    /\ Executed
    /\ ~NoDuplicates(run.changedBlocks)
    /\ \E i, j \in 1..Len(run.changedBlocks) :
         /\ i < j
         /\ HasUid(doc, run.changedBlocks[i]) /\ HasUid(doc, run.changedBlocks[j])
         /\ IndexOfUid(doc, run.changedBlocks[i]) > IndexOfUid(doc, run.changedBlocks[j])

C9_EnabledEstablishesPreconditions ==
    Executed =>
        /\ run.firstElement # Null /\ run.lastElement # Null
        /\ run.pre[run.lastElement].indent # NoIndent
        /\ run.pre[run.lastElement].itemId # NoId
        /\ indentDelta(firstIndentOf(run.pre, run.firstElement), run.pre[run.lastElement].indent) # NaN
        /\ \A i \in 1..Len(run.indented) : run.indented[i].indent # NaN

(* C10: refresh() completes and sets isEnabled to a boolean for every      *)
(* document and selection; a collapsed selection whose sibling in the      *)
(* merge direction is missing yields isEnabled = FALSE, not an error.      *)
C10_SiblingMissing ==
    /\ selection.isCollapsed
    /\ \/ direction = "backward" /\ selection.fb = 1
       \/ direction = "forward" /\ selection.fb = Len(doc)

C10_RefreshNeverThrows ==
    /\ pc # "error"
    /\ (Refreshed /\ C10_SiblingMissing) => isEnabled = FALSE

\* The forward half of C10 holds: no next sibling disables the command.
C10_ForwardWithoutSibling ==
    (Refreshed /\ direction = "forward" /\ C10_SiblingMissing) => isEnabled = FALSE

====
